---- MODULE Spec2Model ----
(***************************************************************************)
(* Model of library/lcd_comm_rev_b.py: the revision-B LCD driver           *)
(* (LcdCommRevB).  Producers call the public operations, which build       *)
(* 10-byte command frames and pixel lines and put them on                  *)
(* config.update_queue; a single drain takes jobs from the head and writes *)
(* them to the serial port (WriteData / WriteLine).                        *)
(*                                                                         *)
(* Python sequences are 0-based, TLA+ sequences 1-based: At(s, i) reads    *)
(* Python's s[i].  Python's assert statements are modelled as executed     *)
(* (the interpreter's default mode).                                       *)
(***************************************************************************)
EXTENDS Integers, Sequences, FiniteSets, TLC

\* ------------------------------------------------------------------ bounds
\* Calls the producers may issue in all before they stop (keeps the run finite).
MaxCalls == 2
\* Calls issued in the runs that sweep one operation's inputs.
SweepCalls == 1
\* Writes that may time out in one run.
MaxTimeouts == 1
\* Longest payload handed to SendCommand directly.
MaxPayload == 9

\* --------------------------------------------------------- program constants
\* class Command
HELLO == 202
SET_ORIENTATION == 203
DISPLAY_BITMAP == 204
SET_LIGHTING == 205
SET_BRIGHTNESS == 206

\* class OrientationValueRevB
ORIENTATION_PORTRAIT == 0
ORIENTATION_LANDSCAPE == 1

\* class SubRevision
A01 == 2561
A02 == 2562
A11 == 2577
A12 == 2578

SubRevision == {A01, A02, A11, A12}

\* The display's physical size, get_width() / get_height().
DisplayWidth == 2
DisplayHeight == 5

\* CONFIG_DATA["display"]["BRIGHTNESS"], the default of SetBrightness.
CONFIG_BRIGHTNESS == 50

\* library.lcd_comm.Orientation
Orientation == {"PORTRAIT", "LANDSCAPE", "REVERSE_PORTRAIT", "REVERSE_LANDSCAPE"}

\* ------------------------------------------------------------ Python helpers
At(s, i) == s[i + 1]

Zeros(n) == [i \in 1..n |-> 0]

Min(a, b) == IF a < b THEN a ELSE b

\* x >> n and x & (2^n - 1) on non-negative integers.
Shr(x, n) == x \div (2 ^ n)
Low(x, n) == x % (2 ^ n)

\* Bitwise or of two non-negative integers.
RECURSIVE BitOr(_, _)
BitOr(a, b) ==
    IF a = 0 THEN b
    ELSE IF b = 0 THEN a
    ELSE (IF a % 2 = 1 \/ b % 2 = 1 THEN 1 ELSE 0) + 2 * BitOr(a \div 2, b \div 2)

\* payload=None, the default of SendCommand.
None == <<-1>>

\* ------------------------------------------------------------------ framing
\* get_rev_b_orientation
get_rev_b_orientation(orientation) ==
    IF orientation = "PORTRAIT" \/ orientation = "REVERSE_PORTRAIT"
    THEN ORIENTATION_PORTRAIT
    ELSE ORIENTATION_LANDSCAPE

\* Mutant of is_flagship: the brightness-range tiers are taken for flagships.
is_flagshipRange(sr) == sr = A11 \/ sr = A12

is_flagship(sr) == sr = A02 \/ sr = A12

is_brightness_range(sr) == sr = A11 \/ sr = A12

\* SendCommand, lines 67-70: the payload after defaulting and padding.
\* None stands for payload=None (no byte sequence holds -1).
PadPayload(payload) ==
    IF payload = None THEN Zeros(8)
    ELSE IF Len(payload) < 8 THEN payload \o Zeros(8 - Len(payload))
    ELSE payload

\* SendCommand, lines 72-82: a bytearray element must lie in 0..255.
FrameRaises(cmd, payload) ==
    \E i \in 1..8 : PadPayload(payload)[i] \notin 0..255

\* Mutant of BuildFrame: byte 9 is left at 0.
BuildFrameNoTrailer(cmd, payload) ==
    <<cmd>> \o [i \in 1..8 |-> PadPayload(payload)[i]] \o <<0>>

\* SendCommand, lines 72-82: the 10-byte buffer.
BuildFrame(cmd, payload) ==
    <<cmd>> \o [i \in 1..8 |-> PadPayload(payload)[i]] \o <<cmd>>

\* ---------------------------------------------------------------- handshake
\* Hello, line 109: the payload sent and expected back.
hello == <<72, 69, 76, 76, 79>>

\* Hello, lines 117-131: indexing past the end of the reply raises IndexError:
\* response[0] on an empty reply, response[6] on a reply of at most 6 bytes,
\* response[7] on a 7-byte reply whose byte 6 is 0x0A.
HelloRaises(resp) ==
    \/ Len(resp) = 0
    \/ Len(resp) <= 6
    \/ Len(resp) = 7 /\ At(resp, 6) = 10

\* Hello, lines 115-134: the warnings logged before the call returns or raises.
HelloWarnings(resp) ==
    (IF Len(resp) # 10 THEN {"short response"} ELSE {})
    \cup (IF Len(resp) >= 1 /\ (At(resp, 0) # HELLO \/ resp[Len(resp)] # HELLO)
          THEN {"bad framing"} ELSE {})
    \cup (IF Len(resp) >= 1 /\ SubSeq(resp, 2, Min(6, Len(resp))) # hello
          THEN {"No HELLO"} ELSE {})
    \cup (IF Len(resp) >= 8 /\ At(resp, 6) = 10 /\ At(resp, 7) \notin {1, 2, 17, 18}
          THEN {"unknown sub-revision"} ELSE {})

\* Mutant of HelloSubRevision: byte 7 = 0x02 is taken for A12.
HelloSubRevisionSwapped(resp, prior) ==
    IF Len(resp) >= 8 /\ At(resp, 6) = 10
    THEN CASE At(resp, 7) = 1 -> A01
           [] At(resp, 7) = 2 -> A12
           [] At(resp, 7) = 17 -> A11
           [] At(resp, 7) = 18 -> A12
           [] OTHER -> prior
    ELSE prior

\* Mutant of HelloSubRevision: an unknown byte 7 resets the tier to A01.
HelloSubRevisionReset(resp, prior) ==
    IF Len(resp) >= 8 /\ At(resp, 6) = 10
    THEN CASE At(resp, 7) = 1 -> A01
           [] At(resp, 7) = 2 -> A02
           [] At(resp, 7) = 17 -> A11
           [] At(resp, 7) = 18 -> A12
           [] OTHER -> A01
    ELSE prior

\* Hello, lines 124-132: the sub-revision after the reply was parsed.
HelloSubRevision(resp, prior) ==
    IF Len(resp) >= 8 /\ At(resp, 6) = 10
    THEN CASE At(resp, 7) = 1 -> A01
           [] At(resp, 7) = 2 -> A02
           [] At(resp, 7) = 17 -> A11
           [] At(resp, 7) = 18 -> A12
           [] OTHER -> prior
    ELSE prior

\* ---------------------------------------------------------------- brightness
\* Mutant of BrightnessLevel: the scaled level is rounded to the nearest.
BrightnessLevelRounded(sr, level_user) ==
    IF is_brightness_range(sr)
    THEN (level_user * 255 + 50) \div 100
    ELSE IF level_user = 0 THEN 1 ELSE 0

\* Mutant of BrightnessLevel: off and full brightness are swapped.
BrightnessLevelInverted(sr, level_user) ==
    IF is_brightness_range(sr)
    THEN (level_user * 255) \div 100
    ELSE IF level_user = 0 THEN 0 ELSE 1

\* SetBrightness, lines 161-168.  int((level_user / 100) * 255) equals the
\* integer quotient for every level in 0..100 (the float product never falls
\* below the exact value there).
BrightnessLevel(sr, level_user) ==
    IF is_brightness_range(sr)
    THEN (level_user * 255) \div 100
    ELSE IF level_user = 0 THEN 1 ELSE 0

\* --------------------------------------------------------------- pixel codec
\* Mutant of Encode: the low green bits are shifted by 12, onto blue's top bit.
EncodeOverlap(px) ==
    LET R == Shr(px[1], 3)
        G == Shr(px[2], 2)
        B == Shr(px[3], 3)
    IN BitOr(BitOr(BitOr(B * 256, Shr(G, 3)), Low(G, 3) * 4096), R * 8)

\* DisplayPILImage, lines 220-232: the packed 16-bit word of one pixel.
Encode(px) ==
    LET R == Shr(px[1], 3)
        G == Shr(px[2], 2)
        B == Shr(px[3], 3)
    IN BitOr(BitOr(BitOr(B * 256, Shr(G, 3)), Low(G, 3) * 8192), R * 8)

\* struct.pack('H', rgb), line 233: two bytes in the host's order, low byte
\* first on the little-endian hosts the driver runs on.
Pack(rgb) == <<rgb % 256, rgb \div 256>>

\* ------------------------------------------------------------------- images
\* A PIL image: its size <<width, height>> and its pixels in raster order,
\* rows top to bottom, each row left to right.
InImage(image, w, h) ==
    /\ 0 <= w /\ w < image.size[1]
    /\ 0 <= h /\ h < image.size[2]

\* pix[w, h], line 220.
PixelAt(image, w, h) == image.pix[h * image.size[1] + w + 1]

\* n pixels of one colour.
RECURSIVE Fill(_, _)
Fill(n, colour) == IF n = 0 THEN <<>> ELSE Append(Fill(n - 1, colour), colour)

\* Image.new("RGB", (get_width(), get_height()), (255, 255, 255)), line 147.
Blank ==
    [pix |-> Fill(DisplayWidth * DisplayHeight, <<255, 255, 255>>),
     size |-> <<DisplayWidth, DisplayHeight>>]

\* DisplayPILImage, lines 189-198: the size painted.
ResolveHeight(image, image_height) ==
    IF image.size[2] > DisplayHeight THEN DisplayHeight
    ELSE IF image_height = 0 THEN image.size[2] ELSE image_height

\* Mutant of ResolveWidth: an image wider than the display is not clamped.
ResolveWidthNoClamp(image, image_width) ==
    IF image_width = 0 THEN image.size[1] ELSE image_width

ResolveWidth(image, image_width) ==
    IF image.size[1] > DisplayWidth THEN DisplayWidth
    ELSE IF image_width = 0 THEN image.size[1] ELSE image_width

\* Mutant of GeometryOk: x is not checked.
GeometryOkNoX(x, y, w, h) ==
    /\ y <= DisplayHeight
    /\ h > 0
    /\ w > 0

\* DisplayPILImage, lines 200-203: the four assertions.
GeometryOk(x, y, w, h) ==
    /\ x <= DisplayWidth
    /\ y <= DisplayHeight
    /\ h > 0
    /\ w > 0

\* DisplayPILImage, lines 205-212: the payload of the DISPLAY_BITMAP frame.
BoxPayload(x, y, w, h) ==
    LET x0 == x
        y0 == y
        x1 == x + w - 1
        y1 == y + h - 1
    IN <<Low(Shr(x0, 8), 8), Low(x0, 8), Low(Shr(y0, 8), 8), Low(y0, 8),
         Low(Shr(x1, 8), 8), Low(x1, 8), Low(Shr(y1, 8), 8), Low(y1, 8)>>

\* Mutant of RunLoop: a line is sent only once it is longer than 8 * width.
RECURSIVE RunLoopLate(_)
RunLoopLate(s) ==
    IF s.h >= s.image_height THEN [s EXCEPT !.event = "end"]
    ELSE IF s.w >= s.image_width THEN RunLoopLate([s EXCEPT !.h = @ + 1, !.w = 0])
    ELSE IF ~InImage(s.image, s.w, s.h) THEN [s EXCEPT !.event = "IndexError"]
    ELSE LET line == s.line \o Pack(Encode(PixelAt(s.image, s.w, s.h)))
         IN IF Len(line) > DisplayWidth * 8
            THEN [s EXCEPT !.w = @ + 1, !.line = line, !.event = "SendLine"]
            ELSE RunLoopLate([s EXCEPT !.w = @ + 1, !.line = line])

\* DisplayPILImage, lines 218-238: the loops run from position (h, w) with the
\* bytes gathered in line, up to the next SendLine ("SendLine"), a pixel read
\* outside the image ("IndexError") or the end of the loops ("end").
RECURSIVE RunLoop(_)
RunLoop(s) ==
    IF s.h >= s.image_height THEN [s EXCEPT !.event = "end"]
    ELSE IF s.w >= s.image_width THEN RunLoop([s EXCEPT !.h = @ + 1, !.w = 0])
    ELSE IF ~InImage(s.image, s.w, s.h) THEN [s EXCEPT !.event = "IndexError"]
    ELSE LET line == s.line \o Pack(Encode(PixelAt(s.image, s.w, s.h)))
         IN IF Len(line) >= DisplayWidth * 8
            THEN [s EXCEPT !.w = @ + 1, !.line = line, !.event = "SendLine"]
            ELSE RunLoop([s EXCEPT !.w = @ + 1, !.line = line])

\* -------------------------------------------------------------------- state
Procs == {1, 2}

VARIABLES
    sub_revision,        \* self.sub_revision
    update_queue,        \* config.update_queue: the pending jobs, head first
    update_queue_mutex,  \* config.update_queue_mutex: 0 free, else its holder
    lcd_serial,          \* every write attempted on the port, in order
    pc,                  \* where each producer stands in its call
    byteBuffer,          \* SendCommand's frame, built and waiting for the mutex
    paint,               \* DisplayPILImage's locals while it runs
    response,            \* the reply Hello last read
    logged,              \* the logger messages of each producer's last call
    result,              \* how each producer's last call ended
    call,                \* each producer's current or last call
    ncalls,              \* calls each producer has started
    budget,              \* calls the producers may still start
    enq,                 \* the jobs each producer's current call has put
    overwrites           \* assignments made to self.sub_revision since __init__

vars == <<sub_revision, update_queue, update_queue_mutex, lcd_serial, pc,
          byteBuffer, paint, response, logged, result, call, ncalls, budget,
          enq, overwrites>>

NoImage == [pix |-> <<>>, size |-> <<0, 0>>]

NoPaint ==
    [image |-> NoImage, image_width |-> 0, image_height |-> 0,
     h |-> 0, w |-> 0, line |-> <<>>, event |-> "none"]

\* __init__, lines 38-40, with an empty queue and nothing written yet.
InitWith(b) ==
    /\ sub_revision = A01
    /\ update_queue = <<>>
    /\ update_queue_mutex = 0
    /\ lcd_serial = <<>>
    /\ pc = [p \in Procs |-> "idle"]
    /\ byteBuffer = [p \in Procs |-> <<>>]
    /\ paint = [p \in Procs |-> NoPaint]
    /\ response = [p \in Procs |-> <<>>]
    /\ logged = [p \in Procs |-> {}]
    /\ result = [p \in Procs |-> "none"]
    /\ call = [p \in Procs |-> [op |-> "none", args |-> <<>>]]
    /\ ncalls = [p \in Procs |-> 0]
    /\ budget = b
    /\ enq = [p \in Procs |-> <<>>]
    /\ overwrites = 0

\* ------------------------------------------------------------------- queue
\* A job of the queue: the write function, its argument, and who put it
\* (producer, call number, position within the call).
Job(f, data, p) ==
    [f |-> f, args |-> data, by |-> p, call |-> ncalls[p], idx |-> Len(enq[p]) + 1]

\* Mutant of put: the job goes to the head of the queue.
putFront(q, job) == <<job>> \o q

\* config.update_queue.put, lines 89 and 99.
put(q, job) == Append(q, job)

\* Whether one more write may time out in this run.
MayTimeOut(log) == Cardinality({i \in DOMAIN log : ~log[i].ok}) < MaxTimeouts

\* lcd_serial.write, lines 93 and 103: ok is FALSE when the write times out
\* (SerialTimeoutException, caught and logged: the data is lost).
WriteData(log, job, ok) == Append(log, job @@ [ok |-> ok])

WriteLine(log, job, ok) == Append(log, job @@ [ok |-> ok])

\* ------------------------------------------------------------- call frames
\* A producer starts a call.
Begin(p, op, args) ==
    /\ pc[p] = "idle"
    /\ budget > 0
    /\ budget' = budget - 1
    /\ ncalls' = [ncalls EXCEPT ![p] = @ + 1]
    /\ call' = [call EXCEPT ![p] = [op |-> op, args |-> args]]
    /\ enq' = [enq EXCEPT ![p] = <<>>]

\* The call ends at once with an exception or a plain return: nothing shared
\* is touched.
Return(p, how, msgs) ==
    /\ pc' = [pc EXCEPT ![p] = "idle"]
    /\ result' = [result EXCEPT ![p] = how]
    /\ logged' = [logged EXCEPT ![p] = msgs]
    /\ UNCHANGED <<sub_revision, update_queue, update_queue_mutex, lcd_serial,
                   byteBuffer, paint, response, overwrites>>

\* SendCommand with bypass_queue=False up to line 88: the frame is built and
\* the producer waits for the mutex.  pt holds the caller's locals.
Send(p, cmd, payload, msgs, pt) ==
    IF FrameRaises(cmd, payload)
    THEN Return(p, "ValueError", msgs)
    ELSE /\ pc' = [pc EXCEPT ![p] = "SendCommand"]
         /\ byteBuffer' = [byteBuffer EXCEPT ![p] = BuildFrame(cmd, payload)]
         /\ paint' = [paint EXCEPT ![p] = pt]
         /\ result' = [result EXCEPT ![p] = "running"]
         /\ logged' = [logged EXCEPT ![p] = msgs]
         /\ UNCHANGED <<sub_revision, update_queue, update_queue_mutex, lcd_serial,
                        response, overwrites>>

\* ------------------------------------------------------------- operations
\* Hello, lines 108-136: the frame is written past the queue, the reply read
\* and parsed.  reply is what lcd_serial.read(10) returns, ok whether the
\* write went through.
HelloBody(p, reply, ok) ==
    /\ ok \/ MayTimeOut(lcd_serial)
    /\ lcd_serial' = WriteData(lcd_serial,
                        [f |-> "WriteData", args |-> BuildFrame(HELLO, hello),
                         by |-> p, call |-> ncalls[p] + 1, idx |-> 0], ok)
    /\ response' = [response EXCEPT ![p] = reply]
    /\ logged' = [logged EXCEPT ![p] = HelloWarnings(reply)]
    /\ result' = [result EXCEPT ![p] = IF HelloRaises(reply) THEN "IndexError" ELSE "ok"]
    /\ sub_revision' = IF HelloRaises(reply) THEN sub_revision
                       ELSE HelloSubRevision(reply, sub_revision)
    /\ overwrites' = IF ~HelloRaises(reply) /\ At(reply, 6) = 10
                        /\ At(reply, 7) \in {1, 2, 17, 18}
                     THEN overwrites + 1 ELSE overwrites
    /\ UNCHANGED <<update_queue, update_queue_mutex, pc, byteBuffer, paint>>

Hello(p, reply, ok) ==
    /\ Begin(p, "Hello", <<>>)
    /\ HelloBody(p, reply, ok)

\* InitializeComm, lines 138-139.
InitializeComm(p, reply, ok) ==
    /\ Begin(p, "InitializeComm", <<>>)
    /\ HelloBody(p, reply, ok)

\* SetBrightness, lines 158-170.
SetBrightnessBody(p, level_user) ==
    IF ~(0 <= level_user /\ level_user <= 100)
    THEN Return(p, "AssertionError", {})
    ELSE Send(p, SET_BRIGHTNESS, <<BrightnessLevel(sub_revision, level_user)>>,
              IF is_brightness_range(sub_revision) THEN {}
              ELSE {"no custom brightness"}, NoPaint)

SetBrightness(p, level_user) ==
    /\ Begin(p, "SetBrightness", <<level_user>>)
    /\ SetBrightnessBody(p, level_user)

\* ScreenOff, lines 150-152.
ScreenOff(p) ==
    /\ Begin(p, "ScreenOff", <<>>)
    /\ SetBrightnessBody(p, 0)

\* ScreenOn, lines 154-156.
ScreenOn(p) ==
    /\ Begin(p, "ScreenOn", <<>>)
    /\ SetBrightnessBody(p, CONFIG_BRIGHTNESS)

\* SetBackplateLedColor, lines 172-176.
SetBackplateLedColor(p, led_color) ==
    /\ Begin(p, "SetBackplateLedColor", led_color)
    /\ IF is_flagship(sub_revision)
       THEN Send(p, SET_LIGHTING, led_color, {}, NoPaint)
       ELSE Return(p, "ok", {"only flagship"})

\* SetOrientation, lines 178-179.
SetOrientation(p, orientation) ==
    /\ Begin(p, "SetOrientation", <<orientation>>)
    /\ Send(p, SET_ORIENTATION, <<get_rev_b_orientation(orientation)>>, {}, NoPaint)

\* DisplayPILImage, lines 181-214: the size is resolved, the geometry
\* asserted, the DISPLAY_BITMAP frame built.
DisplayPILImageBody(p, image, x, y, image_width, image_height) ==
    LET h == ResolveHeight(image, image_height)
        w == ResolveWidth(image, image_width)
    IN IF ~GeometryOk(x, y, w, h)
       THEN Return(p, "AssertionError", {})
       ELSE Send(p, DISPLAY_BITMAP, BoxPayload(x, y, w, h), {},
                 [image |-> image, image_width |-> w, image_height |-> h,
                  h |-> 0, w |-> 0, line |-> <<>>, event |-> "none"])

DisplayPILImage(p, image, x, y, image_width, image_height) ==
    /\ Begin(p, "DisplayPILImage", <<image.size, x, y, image_width, image_height>>)
    /\ DisplayPILImageBody(p, image, x, y, image_width, image_height)

\* Clear, lines 145-148.
Clear(p) ==
    /\ Begin(p, "Clear", <<>>)
    /\ DisplayPILImageBody(p, Blank, 0, 0, 0, 0)

\* Reset, lines 141-143.
Reset(p) ==
    /\ Begin(p, "Reset", <<>>)
    /\ DisplayPILImageBody(p, Blank, 0, 0, 0, 0)

\* SendCommand called directly with bypass_queue=False, lines 65-89.
SendCommand(p, cmd, payload) ==
    /\ Begin(p, "SendCommand", <<cmd, payload, FALSE>>)
    /\ Send(p, cmd, payload, {}, NoPaint)

\* SendCommand called directly with bypass_queue=True, lines 65-85.
SendCommandBypass(p, cmd, payload, ok) ==
    /\ Begin(p, "SendCommand", <<cmd, payload, TRUE>>)
    /\ IF FrameRaises(cmd, payload)
       THEN Return(p, "ValueError", {})
       ELSE /\ ok \/ MayTimeOut(lcd_serial)
            /\ lcd_serial' = WriteData(lcd_serial,
                               [f |-> "WriteData", args |-> BuildFrame(cmd, payload),
                                by |-> p, call |-> ncalls[p] + 1, idx |-> 0], ok)
            /\ pc' = [pc EXCEPT ![p] = "idle"]
            /\ result' = [result EXCEPT ![p] = "ok"]
            /\ logged' = [logged EXCEPT ![p] = {}]
            /\ UNCHANGED <<sub_revision, update_queue, update_queue_mutex,
                           byteBuffer, paint, response, overwrites>>

\* Whether p's call goes on to stream pixels after its command frame.
Paints(p) == call[p].op \in {"DisplayPILImage", "Clear", "Reset"}

\* SendCommand, lines 87-89: the mutex is taken, the frame put, the mutex
\* released.
SendCommandPut(p) ==
    /\ pc[p] = "SendCommand"
    /\ update_queue_mutex = 0
    /\ update_queue' = put(update_queue, Job("WriteData", byteBuffer[p], p))
    /\ enq' = [enq EXCEPT ![p] = Append(@, Job("WriteData", byteBuffer[p], p))]
    /\ byteBuffer' = [byteBuffer EXCEPT ![p] = <<>>]
    /\ pc' = [pc EXCEPT ![p] = IF Paints(p) THEN "with_mutex" ELSE "idle"]
    /\ result' = [result EXCEPT ![p] = IF Paints(p) THEN "running" ELSE "ok"]
    /\ UNCHANGED <<sub_revision, update_queue_mutex, lcd_serial, paint, response,
                   logged, call, ncalls, budget, overwrites>>

\* Mutant of AcquireMutex: the pixel loop is entered without waiting for the
\* mutex to be free.
AcquireMutexNoWait(p) ==
    /\ pc[p] = "with_mutex"
    /\ update_queue_mutex' = p
    /\ pc' = [pc EXCEPT ![p] = "loop"]
    /\ UNCHANGED <<sub_revision, update_queue, lcd_serial, byteBuffer, paint,
                   response, logged, result, call, ncalls, budget, enq, overwrites>>

\* DisplayPILImage, line 217: the mutex is taken for the pixel loop.
AcquireMutex(p) ==
    /\ pc[p] = "with_mutex"
    /\ update_queue_mutex = 0
    /\ update_queue_mutex' = p
    /\ pc' = [pc EXCEPT ![p] = "loop"]
    /\ UNCHANGED <<sub_revision, update_queue, lcd_serial, byteBuffer, paint,
                   response, logged, result, call, ncalls, budget, enq, overwrites>>

\* SendLine, lines 98-99.
SendLine(q, line, p) == put(q, Job("WriteLine", line, p))

\* DisplayPILImage, lines 218-242, with the mutex held: the loops run to the
\* next SendLine, which puts the line; or to a pixel read outside the image,
\* which raises IndexError and releases the mutex; or to their end, where the
\* rest of the line is put and the mutex released.
PaintStep(p) ==
    /\ pc[p] = "loop"
    /\ LET s == RunLoop(paint[p])
       IN CASE s.event = "SendLine" ->
                 /\ update_queue' = SendLine(update_queue, s.line, p)
                 /\ enq' = [enq EXCEPT ![p] = Append(@, Job("WriteLine", s.line, p))]
                 /\ paint' = [paint EXCEPT ![p] = [s EXCEPT !.line = <<>>, !.event = "none"]]
                 /\ UNCHANGED <<pc, result, update_queue_mutex>>
            [] s.event = "IndexError" ->
                 /\ update_queue_mutex' = 0
                 /\ pc' = [pc EXCEPT ![p] = "idle"]
                 /\ result' = [result EXCEPT ![p] = "IndexError"]
                 /\ paint' = [paint EXCEPT ![p] = NoPaint]
                 /\ UNCHANGED <<update_queue, enq>>
            [] s.event = "end" ->
                 /\ IF Len(s.line) > 0
                    THEN /\ update_queue' = SendLine(update_queue, s.line, p)
                         /\ enq' = [enq EXCEPT ![p] =
                                       Append(@, Job("WriteLine", s.line, p))]
                    ELSE UNCHANGED <<update_queue, enq>>
                 /\ update_queue_mutex' = 0
                 /\ pc' = [pc EXCEPT ![p] = "idle"]
                 /\ result' = [result EXCEPT ![p] = "ok"]
                 /\ paint' = [paint EXCEPT ![p] = NoPaint]
    /\ UNCHANGED <<sub_revision, lcd_serial, byteBuffer, response, logged, call,
                   ncalls, budget, overwrites>>

\* Mutant of Drain: a job whose write timed out stays at the head and is
\* tried again.
DrainRetry(ok) ==
    /\ update_queue # <<>>
    /\ ok \/ MayTimeOut(lcd_serial)
    /\ update_queue' = IF ok THEN Tail(update_queue) ELSE update_queue
    /\ lcd_serial' = IF Head(update_queue).f = "WriteData"
                     THEN WriteData(lcd_serial, Head(update_queue), ok)
                     ELSE WriteLine(lcd_serial, Head(update_queue), ok)
    /\ UNCHANGED <<sub_revision, update_queue_mutex, pc, byteBuffer, paint,
                   response, logged, result, call, ncalls, budget, enq, overwrites>>

\* Mutant of Drain: a write that times out empties the queue.
DrainFlush(ok) ==
    /\ update_queue # <<>>
    /\ ok \/ MayTimeOut(lcd_serial)
    /\ update_queue' = IF ok THEN Tail(update_queue) ELSE <<>>
    /\ lcd_serial' = IF Head(update_queue).f = "WriteData"
                     THEN WriteData(lcd_serial, Head(update_queue), ok)
                     ELSE WriteLine(lcd_serial, Head(update_queue), ok)
    /\ UNCHANGED <<sub_revision, update_queue_mutex, pc, byteBuffer, paint,
                   response, logged, result, call, ncalls, budget, enq, overwrites>>

\* The dispatcher's drain: the head job is taken and its write function
\* called, WriteData (lines 91-96) or WriteLine (lines 101-106).
Drain(ok) ==
    /\ update_queue # <<>>
    /\ ok \/ MayTimeOut(lcd_serial)
    /\ update_queue' = Tail(update_queue)
    /\ lcd_serial' = IF Head(update_queue).f = "WriteData"
                     THEN WriteData(lcd_serial, Head(update_queue), ok)
                     ELSE WriteLine(lcd_serial, Head(update_queue), ok)
    /\ UNCHANGED <<sub_revision, update_queue_mutex, pc, byteBuffer, paint,
                   response, logged, result, call, ncalls, budget, enq, overwrites>>

\* ------------------------------------------------------------------- inputs
\* A 10-byte reply to HELLO naming sub-revision byte v.
Reply(v) == <<HELLO>> \o hello \o <<10, v, 0, HELLO>>

\* Pixel colours the test images are made of.
Palette ==
    << <<255, 255, 255>>, <<0, 0, 0>>, <<255, 0, 0>>, <<0, 255, 0>>,
       <<0, 0, 255>>, <<8, 4, 8>>, <<200, 100, 50>> >>

\* n pixels running through the palette from colour k on.
RECURSIVE Raster(_, _)
Raster(n, k) ==
    IF n = 0 THEN <<>>
    ELSE Append(Raster(n - 1, k), Palette[((k + n - 1) % Len(Palette)) + 1])

\* A w x h image whose pixels run through the palette in raster order.
MakeImage(w, h, k) == [pix |-> Raster(w * h, k), size |-> <<w, h>>]

\* The whole display and a bit more than four lines' worth of pixels.
FullImage == MakeImage(DisplayWidth, DisplayHeight, 1)

\* ------------------------------------------------------------ specification
\* Two producers call public operations concurrently while the drain runs.
Init == InitWith(MaxCalls)

Next ==
    \/ \E p \in Procs, r \in {Reply(18)}, ok \in BOOLEAN :
          Hello(p, r, ok)
    \/ \E p \in Procs, l \in {0, 100} : SetBrightness(p, l)
    \/ \E p \in Procs : DisplayPILImage(p, FullImage, 0, 0, 0, 0)
    \/ \E p \in Procs : SendCommandPut(p)
    \/ \E p \in Procs : AcquireMutex(p)
    \/ \E p \in Procs : PaintStep(p)
    \/ \E ok \in BOOLEAN : Drain(ok)

Spec == Init /\ [][Next]_vars

\* One producer calls every public operation, one call after the other, while
\* the drain runs.
Replies == {Reply(1), Reply(2), Reply(17), Reply(18), Reply(0), SubSeq(Reply(17), 1, 5)}

Colors == {<<255, 0, 128>>, <<1, 2, 3>>}

\* Geometries: image size, x, y, image_width, image_height.
PaintArgs ==
    { <<DisplayWidth, DisplayHeight, 0, 0, 0, 0>>,
      <<DisplayWidth, DisplayHeight, DisplayWidth + 1, 0, 0, 0>>,
      <<DisplayWidth, DisplayHeight, 0, DisplayHeight + 1, 0, 0>>,
      <<1, 1, 0, 0, -1, 0>>,
      <<1, 1, 0, 0, 0, -1>>,
      <<0, 0, 0, 0, 0, 0>>,
      <<DisplayWidth + 1, DisplayHeight + 1, 0, 0, 0, 0>>,
      <<1, 1, DisplayWidth, DisplayHeight, 2, 2>> }

\* The calls of PaintArgs: the image, x, y, image_width, image_height.
Paintings == { <<MakeImage(g[1], g[2], 1), g[3], g[4], g[5], g[6]>> : g \in PaintArgs }

InitOps == InitWith(MaxCalls)

NextOps ==
    \/ \E r \in Replies, ok \in BOOLEAN : Hello(1, r, ok)
    \/ \E ok \in BOOLEAN : InitializeComm(1, Reply(2), ok)
    \/ \E l \in {-1, 0, 100, 101} : SetBrightness(1, l)
    \/ ScreenOff(1)
    \/ ScreenOn(1)
    \/ \E c \in Colors : SetBackplateLedColor(1, c)
    \/ \E o \in Orientation : SetOrientation(1, o)
    \/ \E c \in Paintings : DisplayPILImage(1, c[1], c[2], c[3], c[4], c[5])
    \/ Clear(1)
    \/ Reset(1)
    \/ SendCommandPut(1)
    \/ AcquireMutex(1)
    \/ PaintStep(1)
    \/ \E ok \in BOOLEAN : Drain(ok)

SpecOps == InitOps /\ [][NextOps]_vars

\* The handshake over every reply of up to 10 bytes built from these bytes.
ReplyTemplates ==
    { <<HELLO>> \o hello \o <<b6, b7, 0, HELLO>> :
        b6 \in {10, 0}, b7 \in {1, 2, 17, 18, 0, 10} }
    \cup { <<b0>> \o h \o <<10, b7, 0, b9>> :
             b0 \in {HELLO, 0}, h \in {hello, <<72, 69, 76, 76, 80>>},
             b7 \in {17, 0}, b9 \in {HELLO, 0} }

\* The 9 bytes 0xCA 'H' 'E' 'L' 'L' 'O' 0x0A 0x11 0xCA.
NineByteReply == <<HELLO>> \o hello \o <<10, 17, HELLO>>

AllReplies == { SubSeq(t, 1, n) : t \in ReplyTemplates, n \in 0..10 } \cup {NineByteReply}

InitHello == InitWith(MaxCalls)

NextHello ==
    \/ \E r \in AllReplies, ok \in BOOLEAN : Hello(1, r, ok)
    \/ \E r \in Replies, ok \in BOOLEAN : InitializeComm(1, r, ok)

SpecHello == InitHello /\ [][NextHello]_vars

\* SendCommand over every opcode and payloads of every length up to
\* MaxPayload, beside the operations that build frames through it.
Commands == {HELLO, SET_ORIENTATION, DISPLAY_BITMAP, SET_LIGHTING, SET_BRIGHTNESS}

Payloads ==
    { [i \in 1..n |-> i] : n \in 0..MaxPayload }
    \cup { [i \in 1..n |-> 256 - i] : n \in 1..MaxPayload }
    \cup { None, <<256>> }

InitFrame == InitWith(SweepCalls)

NextFrame ==
    \/ \E c \in Commands, pl \in Payloads : SendCommand(1, c, pl)
    \/ \E c \in Commands, pl \in Payloads, ok \in BOOLEAN : SendCommandBypass(1, c, pl, ok)
    \/ \E ok \in BOOLEAN : Hello(1, Reply(18), ok)
    \/ \E l \in {0, 100} : SetBrightness(1, l)
    \/ \E c \in Colors : SetBackplateLedColor(1, c)
    \/ \E o \in Orientation : SetOrientation(1, o)
    \/ DisplayPILImage(1, FullImage, 0, 0, 0, 0)
    \/ SendCommandPut(1)
    \/ AcquireMutex(1)
    \/ PaintStep(1)
    \/ \E ok \in BOOLEAN : Drain(ok)

SpecFrame == InitFrame /\ [][NextFrame]_vars

\* DisplayPILImage over every image size up to one more than the display,
\* painted whole, and over geometries that differ from the image's own.
SweepArgs ==
    { <<w, h, 0, 0, 0, 0>> : w \in 0..(DisplayWidth + 1), h \in 0..(DisplayHeight + 1) }
    \cup PaintArgs
    \cup { <<1, 2, 1, 1, 300, 1>>, <<DisplayWidth, 1, 0, 0, 1, 3>>,
           <<DisplayWidth, DisplayHeight, 1, 2, 1, 2>> }

PaintSweep == { <<MakeImage(g[1], g[2], 1), g[3], g[4], g[5], g[6]>> : g \in SweepArgs }

InitPaint == InitWith(SweepCalls)

NextPaint ==
    \/ \E c \in PaintSweep : DisplayPILImage(1, c[1], c[2], c[3], c[4], c[5])
    \/ Clear(1)
    \/ SendCommandPut(1)
    \/ AcquireMutex(1)
    \/ PaintStep(1)
    \/ \E ok \in BOOLEAN : Drain(ok)

SpecPaint == InitPaint /\ [][NextPaint]_vars

\* ------------------------------------------------------------------ claims
SameCall(a, b) == a.by = b.by /\ a.call = b.call

Before(a, b) == a.call < b.call \/ (a.call = b.call /\ a.idx < b.idx)

CallStarted(p) == ncalls'[p] = ncalls[p] + 1

IsHello(c) == c.op \in {"Hello", "InitializeComm"}

HelloStep(p) == CallStarted(p) /\ IsHello(call'[p])

\* The queued writes attempted so far, followed by the jobs still pending.
Stream == SelectSeq(lcd_serial, LAMBDA e : e.idx > 0) \o update_queue

\* C1: the jobs of one DisplayPILImage call (its DISPLAY_BITMAP frame and its
\* pixel lines) lie next to each other in the queue: no other call's job
\* stands between two jobs of the same call.
C1_ImageBlockContiguous ==
    \A i, k \in DOMAIN update_queue :
        (i < k /\ SameCall(update_queue[i], update_queue[k]))
            => \A j \in i..k : SameCall(update_queue[j], update_queue[i])

\* C2: the drain writes in the order of the puts.  Per producer, the writes
\* attempted followed by the jobs pending are in the order (call, position in
\* the call), so every job of an earlier call is written before any job of a
\* later one; and nothing that the current call has put is missing from them.
C2_Fifo ==
    /\ \A i, j \in DOMAIN Stream :
          (i < j /\ Stream[i].by = Stream[j].by) => Before(Stream[i], Stream[j])
    /\ \A p \in Procs : \A i \in DOMAIN enq[p] :
          \E k \in DOMAIN Stream :
              /\ SameCall(Stream[k], enq[p][i])
              /\ Stream[k].idx = i
              /\ Stream[k].args = enq[p][i].args

\* A paint's frame and its two pixel lines were written, then the same
\* producer's SET_BRIGHTNESS frame.
C2_Witness ==
    /\ update_queue = <<>>
    /\ Len(Stream) = 4
    /\ \A i \in 1..4 : Stream[i].by = 1
    /\ Stream[1].call = 1 /\ Stream[1].args[1] = DISPLAY_BITMAP
    /\ Stream[2].f = "WriteLine" /\ Stream[3].f = "WriteLine"
    /\ Stream[4].call = 2 /\ Stream[4].args[1] = SET_BRIGHTNESS

\* C3: Hello returns normally whatever reply of up to 10 bytes it reads; on
\* a reply shorter than 10 bytes it logs a warning and leaves the tier at its
\* default.
C3_HelloNeverRaises ==
    \A p \in Procs :
        IsHello(call[p]) =>
            /\ result[p] = "ok"
            /\ Len(response[p]) < 10 => "short response" \in logged[p]
            /\ (Len(response[p]) < 10 /\ ncalls[p] = 1) => sub_revision = A01

\* C4 as claimed: the tier is A01 until a handshake assigns it and, once
\* assigned, never changes again, whatever a further Hello reads.
C4_Original ==
    /\ [](overwrites = 0 => sub_revision = A01)
    /\ [][overwrites >= 1 => sub_revision' = sub_revision]_vars

\* C4 as amended: the tier is A01 until a handshake assigns it, and it changes
\* only in a Hello (or InitializeComm) call whose reply has 0x0A at byte 6 and
\* one of 0x01, 0x02, 0x11, 0x12 at byte 7, to the tier 0xA00 + byte 7; a
\* later Hello may so change it again, and no other operation changes it.
C4_TierChangesOnlyByHello ==
    /\ [](overwrites = 0 => sub_revision = A01)
    /\ [][sub_revision' # sub_revision =>
            \E p \in Procs :
                /\ HelloStep(p)
                /\ Len(response'[p]) >= 8
                /\ response'[p][7] = 10
                /\ response'[p][8] \in {1, 2, 17, 18}
                /\ sub_revision' = 2560 + response'[p][8]]_vars

\* Two handshakes assigned the tier, the second one to another tier.
C4_Witness == overwrites = 2 /\ sub_revision = A12 /\ \E p \in Procs : IsHello(call[p])

\* C5: a 10-byte reply with 0x0A at byte 6 sets the tier by byte 7: 0x01,
\* 0x02, 0x11, 0x12 give A01, A02, A11, A12, and A11 has the brightness range
\* and no RGB backlight; any other byte 7 logs a warning and leaves the tier
\* as it was.  The 9 bytes 0xCA H E L L O 0x0A 0x11 0xCA give A11 as well.
C5_SubRevisionMapping ==
    [][\A p \in Procs :
        /\ (HelloStep(p) /\ Len(response'[p]) = 10 /\ response'[p][7] = 10) =>
              /\ result'[p] = "ok"
              /\ response'[p][8] = 1 => sub_revision' = 2561
              /\ response'[p][8] = 2 => sub_revision' = 2562
              /\ response'[p][8] = 17 =>
                    /\ sub_revision' = 2577
                    /\ is_brightness_range(sub_revision')
                    /\ ~is_flagship(sub_revision')
              /\ response'[p][8] = 18 => sub_revision' = 2578
              /\ response'[p][8] \notin {1, 2, 17, 18} =>
                    /\ sub_revision' = sub_revision
                    /\ "unknown sub-revision" \in logged'[p]
        /\ (HelloStep(p) /\ response'[p] = <<202, 72, 69, 76, 76, 79, 10, 17, 202>>) =>
              sub_revision' = 2577]_vars

\* A handshake set A11 and a later reply with an unknown byte 7 left it there.
C5_Witness ==
    \E p \in Procs :
        /\ IsHello(call[p])
        /\ Len(response[p]) = 10
        /\ response[p][7] = 10
        /\ response[p][8] = 0
        /\ "unknown sub-revision" \in logged[p]
        /\ sub_revision = A11

\* The frames p's current call has built: waiting for the mutex, put on the
\* queue, or written past it.
BuiltFrames(p) ==
    (IF pc[p] = "SendCommand" THEN {byteBuffer[p]} ELSE {})
    \cup { enq[p][i].args : i \in DOMAIN enq[p] }
    \cup { lcd_serial[i].args :
             i \in { k \in DOMAIN lcd_serial :
                       /\ lcd_serial[k].by = p
                       /\ lcd_serial[k].call = ncalls[p]
                       /\ lcd_serial[k].idx = 0 } }

IsBytes(payload) == \A i \in DOMAIN payload : payload[i] \in 0..255

FramedAs(f, cmd, payload) ==
    /\ Len(f) = 10
    /\ f[1] = cmd
    /\ f[10] = cmd
    /\ \A i \in 1..8 :
          f[i + 1] = IF payload # None /\ i <= Len(payload) THEN payload[i] ELSE 0

\* C6: for every opcode and every payload of 0 to 8 bytes, or none,
\* SendCommand builds a frame of 10 bytes with the opcode at bytes 0 and 9,
\* the payload in order from byte 1 and zeros after it up to byte 8; and
\* every command frame on the queue or written to the port has 10 bytes, the
\* first equal to the last.
C6_FrameLayout ==
    /\ \A p \in Procs :
          (/\ call[p].op = "SendCommand"
           /\ \/ call[p].args[2] = None
              \/ Len(call[p].args[2]) <= 8 /\ IsBytes(call[p].args[2]))
          => /\ result[p] \in {"running", "ok"}
             /\ BuiltFrames(p) # {}
             /\ \A f \in BuiltFrames(p) : FramedAs(f, call[p].args[1], call[p].args[2])
    /\ \A i \in DOMAIN update_queue :
          update_queue[i].f = "WriteData" =>
              /\ Len(update_queue[i].args) = 10
              /\ update_queue[i].args[1] = update_queue[i].args[10]
    /\ \A i \in DOMAIN lcd_serial :
          lcd_serial[i].f = "WriteData" =>
              /\ Len(lcd_serial[i].args) = 10
              /\ lcd_serial[i].args[1] = lcd_serial[i].args[10]

\* SendCommand(SET_LIGHTING, [1, 2, 3]) went through the queue to the port.
C6_Witness ==
    /\ call[1].op = "SendCommand"
    /\ call[1].args[2] = <<1, 2, 3>>
    /\ result[1] = "ok"
    /\ \E i \in DOMAIN lcd_serial :
          /\ lcd_serial[i].idx = 1
          /\ lcd_serial[i].args = <<205, 1, 2, 3, 0, 0, 0, 0, 0, 205>>

\* C7: SendCommand with a payload of more than 8 bytes fails with
\* InvalidPayload: it builds no frame, puts nothing and writes nothing.
C7_LongPayloadRejected ==
    \A p \in Procs :
        (/\ call[p].op = "SendCommand"
         /\ call[p].args[2] # None
         /\ Len(call[p].args[2]) > 8)
        => /\ result[p] = "InvalidPayload"
           /\ BuiltFrames(p) = {}

\* The size C8 and C9 call resolved: the image's own where 0 is asked, the
\* display's where the image is larger than the display.
Resolved(native, asked, limit) ==
    IF native > limit THEN limit ELSE IF asked = 0 THEN native ELSE asked

\* The calls C8 is about.
Rejectable(c) ==
    \/ c.op = "SetBrightness" /\ (c.args[1] < 0 \/ c.args[1] > 100)
    \/ /\ c.op = "DisplayPILImage"
       /\ \/ c.args[2] > DisplayWidth
          \/ c.args[3] > DisplayHeight
          \/ Resolved(c.args[1][1], c.args[4], DisplayWidth) <= 0
          \/ Resolved(c.args[1][2], c.args[5], DisplayHeight) <= 0

\* C8: SetBrightness with a level outside 0..100 and DisplayPILImage with
\* x > width, y > height or a resolved width or height <= 0 are rejected
\* (AssertionError), and a rejected call leaves the queue, the tier and the
\* port as they were and has put nothing.
C8_RejectedBeforeEnqueue ==
    [][\A p \in Procs :
        CallStarted(p) =>
            /\ Rejectable(call'[p]) => result'[p] = "AssertionError"
            /\ result'[p] = "AssertionError" =>
                  /\ UNCHANGED <<update_queue, sub_revision, lcd_serial>>
                  /\ enq'[p] = <<>>
                  /\ pc'[p] = "idle"]_vars

\* A paint at x > width was rejected while an earlier job was pending.
C8_Witness ==
    /\ call[1].op = "DisplayPILImage"
    /\ call[1].args[2] > DisplayWidth
    /\ result[1] = "AssertionError"
    /\ update_queue # <<>>

\* The DISPLAY_BITMAP frame for the box (0, 0)-(x1, y1).
BoxFrame(x1, y1) ==
    <<204, 0, 0, 0, 0, (x1 \div 256) % 256, x1 % 256, (y1 \div 256) % 256, y1 % 256, 204>>

\* p's last call painted a non-empty image with x, y, width, height all 0.
NativePaint(p) ==
    /\ call[p].op = "DisplayPILImage"
    /\ call[p].args[1][1] > 0
    /\ call[p].args[1][2] > 0
    /\ \A i \in 2..5 : call[p].args[i] = 0
    /\ pc[p] = "idle"

CommandJobs(p) == { i \in DOMAIN enq[p] : enq[p][i].f = "WriteData" }

\* C9 as claimed: painting a non-empty w x h image with x, y, width and
\* height 0 puts exactly one DISPLAY_BITMAP frame, for the box
\* (0, 0)-(w - 1, h - 1).
C9_Original ==
    \A p \in Procs :
        NativePaint(p) =>
            /\ CommandJobs(p) = {1}
            /\ enq[p][1].args = BoxFrame(call[p].args[1][1] - 1, call[p].args[1][2] - 1)

\* C9 as amended: the size painted is the image's own, but the display's
\* width where the image is wider than the display and the display's height
\* where it is taller; the one DISPLAY_BITMAP frame put is for the box
\* (0, 0)-(min(w, width) - 1, min(h, height) - 1).
C9_NativeSizeClamped ==
    \A p \in Procs :
        NativePaint(p) =>
            /\ CommandJobs(p) = {1}
            /\ enq[p][1].args = BoxFrame(Min(call[p].args[1][1], DisplayWidth) - 1,
                                          Min(call[p].args[1][2], DisplayHeight) - 1)

\* An image one larger than the display each way was painted as the display's
\* size.
C9_Witness ==
    /\ NativePaint(1)
    /\ call[1].args[1] = <<DisplayWidth + 1, DisplayHeight + 1>>
    /\ result[1] = "ok"
    /\ enq[1][1].args = BoxFrame(DisplayWidth - 1, DisplayHeight - 1)

LedStart(p) == CallStarted(p) /\ call'[p].op = "SetBackplateLedColor"

\* C10: SetBackplateLedColor on A01 or A11 returns having put and written
\* nothing, the queue and the tier unchanged; on A02 or A12 it puts exactly
\* one frame, SET_LIGHTING with r, g, b and five zero bytes.
C10_BackplateByTier ==
    [][\A p \in Procs :
        /\ (LedStart(p) /\ sub_revision \in {2561, 2577}) =>
              /\ UNCHANGED <<update_queue, lcd_serial, sub_revision>>
              /\ enq'[p] = <<>>
              /\ pc'[p] = "idle"
              /\ result'[p] = "ok"
        /\ (LedStart(p) /\ sub_revision \in {2562, 2578}) =>
              /\ pc'[p] = "SendCommand"
              /\ UNCHANGED <<update_queue, lcd_serial, sub_revision>>
        /\ (call[p].op = "SetBackplateLedColor" /\ pc[p] = "SendCommand"
                /\ pc'[p] # "SendCommand") =>
              /\ pc'[p] = "idle"
              /\ result'[p] = "ok"
              /\ Len(enq'[p]) = 1
              /\ enq'[p][1].f = "WriteData"
              /\ enq'[p][1].args = <<205, call[p].args[1], call[p].args[2],
                                      call[p].args[3], 0, 0, 0, 0, 0, 205>>
              /\ update_queue' = Append(update_queue, enq'[p][1])
              /\ UNCHANGED <<lcd_serial, sub_revision>>]_vars

\* On A12 the colour (255, 0, 128) was put as one SET_LIGHTING frame.
C10_Witness ==
    /\ call[1].op = "SetBackplateLedColor"
    /\ sub_revision = A12
    /\ pc[1] = "idle"
    /\ Len(enq[1]) = 1
    /\ enq[1][1].args = <<205, 255, 0, 128, 0, 0, 0, 0, 0, 205>>

\* ------------------------------------------------- brightness, every level
\* The session after __init__ and InitializeComm() whose reply named
\* sub-revision byte v (lines 38-40 and 108-139), b calls left.
InitAfterHello(v, b) ==
    /\ sub_revision = HelloSubRevision(Reply(v), A01)
    /\ update_queue = <<>>
    /\ update_queue_mutex = 0
    /\ lcd_serial = WriteData(<<>>, [f |-> "WriteData", args |-> BuildFrame(HELLO, hello),
                                     by |-> 1, call |-> 1, idx |-> 0], TRUE)
    /\ pc = [p \in Procs |-> "idle"]
    /\ byteBuffer = [p \in Procs |-> <<>>]
    /\ paint = [p \in Procs |-> NoPaint]
    /\ response = [p \in Procs |-> IF p = 1 THEN Reply(v) ELSE <<>>]
    /\ logged = [p \in Procs |-> {}]
    /\ result = [p \in Procs |-> IF p = 1 THEN "ok" ELSE "none"]
    /\ call = [p \in Procs |-> IF p = 1 THEN [op |-> "InitializeComm", args |-> <<>>]
                                ELSE [op |-> "none", args |-> <<>>]]
    /\ ncalls = [p \in Procs |-> IF p = 1 THEN 1 ELSE 0]
    /\ budget = b
    /\ enq = [p \in Procs |-> <<>>]
    /\ overwrites = 1

\* SetBrightness over every level from -1 to 101 on every tier: on the
\* default tier before any handshake, and after a handshake set each tier.
InitBright ==
    \/ InitWith(SweepCalls)
    \/ \E v \in {1, 2, 17, 18} : InitAfterHello(v, SweepCalls)

NextBright ==
    \/ \E l \in (-1)..101 : SetBrightness(1, l)
    \/ ScreenOff(1)
    \/ ScreenOn(1)
    \/ \E r \in {Reply(1), Reply(17)}, ok \in BOOLEAN : Hello(1, r, ok)
    \/ SendCommandPut(1)
    \/ \E ok \in BOOLEAN : Drain(ok)

SpecBright == InitBright /\ [][NextBright]_vars

\* The SET_BRIGHTNESS frames p's call has built, if it asked for a level in
\* 0..100: the one waiting for the mutex or the ones put.
BrightnessFrames(p) ==
    (IF pc[p] = "SendCommand" THEN {byteBuffer[p]} ELSE {})
    \cup { enq[p][i].args : i \in DOMAIN enq[p] }

\* p's call is SetBrightness(level) with level in 0..100.
AsksLevel(p) ==
    /\ call[p].op = "SetBrightness"
    /\ call[p].args[1] >= 0
    /\ call[p].args[1] <= 100

\* f is a SET_BRIGHTNESS frame whose payload is byte b and seven zeros.
BrightnessFrame(f, b) ==
    /\ Len(f) = 10
    /\ f[1] = 206 /\ f[10] = 206
    /\ f[2] = b
    /\ \A i \in 3..9 : f[i] = 0

\* C11: on A11 and A12, for every level in 0..100 the payload byte of the
\* SET_BRIGHTNESS frame is round(level / 100 * 255), the integer nearest to
\* level * 255 / 100.
C11_RoundedByte ==
    \A p \in Procs :
        (AsksLevel(p) /\ sub_revision \in {2577, 2578}) =>
            \A f \in BrightnessFrames(p) :
                /\ 100 * f[2] - 255 * call[p].args[1] <= 50
                /\ 255 * call[p].args[1] - 100 * f[2] <= 50

\* C12: on A11 and A12, for every level in 0..100 SetBrightness puts exactly
\* one SET_BRIGHTNESS frame; its first payload byte b is level * 255 / 100
\* truncated (100 b <= 255 level < 100 (b + 1)), so 0 for level 0, 255 for
\* level 100 and always in 0..255; the other seven payload bytes are zero.
C12_TruncatedByte ==
    \A p \in Procs :
        (AsksLevel(p) /\ sub_revision \in {2577, 2578}) =>
            /\ result[p] \in {"running", "ok"}
            /\ pc[p] \in {"SendCommand", "idle"}
            /\ Len(enq[p]) = IF pc[p] = "idle" THEN 1 ELSE 0
            /\ Cardinality(BrightnessFrames(p)) = 1
            /\ \A f \in BrightnessFrames(p) :
                  /\ BrightnessFrame(f, f[2])
                  /\ f[2] \in 0..255
                  /\ 100 * f[2] <= 255 * call[p].args[1]
                  /\ 255 * call[p].args[1] < 100 * (f[2] + 1)
                  /\ call[p].args[1] = 0 => f[2] = 0
                  /\ call[p].args[1] = 100 => f[2] = 255
            /\ \A i \in DOMAIN enq[p] : enq[p][i].f = "WriteData"

\* SetBrightness(1) on A11 put one frame with byte 2 (2.55 truncated).
C12_Witness ==
    /\ AsksLevel(1)
    /\ call[1].args[1] = 1
    /\ sub_revision = A11
    /\ pc[1] = "idle"
    /\ Len(enq[1]) = 1
    /\ enq[1][1].args = <<206, 2, 0, 0, 0, 0, 0, 0, 0, 206>>

\* C13: on A01 and A02 (A01 being the tier before any handshake),
\* SetBrightness(0) puts a SET_BRIGHTNESS frame with payload byte 1 and
\* SetBrightness(level) for level in 1..100 one with payload byte 0;
\* ScreenOff puts byte 1.
C13_OnOffByte ==
    \A p \in Procs :
        ((AsksLevel(p) \/ call[p].op = "ScreenOff") /\ sub_revision \in {2561, 2562}) =>
            /\ result[p] \in {"running", "ok"}
            /\ pc[p] \in {"SendCommand", "idle"}
            /\ Len(enq[p]) = IF pc[p] = "idle" THEN 1 ELSE 0
            /\ Cardinality(BrightnessFrames(p)) = 1
            /\ \A f \in BrightnessFrames(p) :
                  BrightnessFrame(f, IF call[p].op = "ScreenOff" THEN 1
                                     ELSE IF call[p].args[1] = 0 THEN 1 ELSE 0)

\* After a handshake set A02, ScreenOff put one frame with byte 1; before any
\* handshake the same holds for SetBrightness(0), see C13_OnOffByte.
C13_Witness ==
    /\ call[1].op = "ScreenOff"
    /\ sub_revision = A02
    /\ overwrites = 1
    /\ pc[1] = "idle"
    /\ Len(enq[1]) = 1
    /\ enq[1][1].args = <<206, 1, 0, 0, 0, 0, 0, 0, 0, 206>>


\* ------------------------------------------------------ pixel codec, swept
\* Every value of each channel, beside a few values of the other two.
Few == {0, 100, 255}

PixelSweep ==
    { <<r, g, b>> : r \in 0..255, g \in Few, b \in Few }
    \cup { <<r, g, b>> : r \in Few, g \in 0..255, b \in Few }
    \cup { <<r, g, b>> : r \in Few, g \in Few, b \in 0..255 }

\* The session after __init__ and DisplayPILImage(image) on a 1 x 1 image of
\* pixel px has run up to line 212: the DISPLAY_BITMAP frame is built and
\* waits for the mutex.
InitCodec ==
    \E px \in PixelSweep :
        /\ sub_revision = A01
        /\ update_queue = <<>>
        /\ update_queue_mutex = 0
        /\ lcd_serial = <<>>
        /\ pc = [p \in Procs |-> IF p = 1 THEN "SendCommand" ELSE "idle"]
        /\ byteBuffer = [p \in Procs |->
                           IF p = 1 THEN BuildFrame(DISPLAY_BITMAP, BoxPayload(0, 0, 1, 1))
                           ELSE <<>>]
        /\ paint = [p \in Procs |->
                      IF p = 1
                      THEN [image |-> [pix |-> <<px>>, size |-> <<1, 1>>],
                            image_width |-> 1, image_height |-> 1,
                            h |-> 0, w |-> 0, line |-> <<>>, event |-> "none"]
                      ELSE NoPaint]
        /\ response = [p \in Procs |-> <<>>]
        /\ logged = [p \in Procs |-> {}]
        /\ result = [p \in Procs |-> IF p = 1 THEN "running" ELSE "none"]
        /\ call = [p \in Procs |->
                     IF p = 1 THEN [op |-> "DisplayPILImage", args |-> <<<<1, 1>>, 0, 0, 0, 0>>]
                     ELSE [op |-> "none", args |-> <<>>]]
        /\ ncalls = [p \in Procs |-> IF p = 1 THEN 1 ELSE 0]
        /\ budget = 0
        /\ enq = [p \in Procs |-> <<>>]
        /\ overwrites = 0

NextCodec ==
    \/ SendCommandPut(1)
    \/ AcquireMutex(1)
    \/ PaintStep(1)
    \/ \E ok \in BOOLEAN : Drain(ok)

SpecCodec == InitCodec /\ [][NextCodec]_vars

\* The word two packed bytes stand for, low byte first.
WordOf(line) == line[1] + 256 * line[2]

\* C14: for every pixel (R, G, B) the word packed is
\* ((B>>3) << 8) | ((G>>2) >> 3) | (((G>>2) & 7) << 13) | ((R>>3) << 3): it is
\* below 2^16, its bits 0-2 are the high three bits of G>>2, bits 3-7 are
\* R>>3, bits 8-12 are B>>3 and bits 13-15 the low three bits of G>>2, so
\* the fields do not overlap, the word is their sum, and the down-sampled
\* channels can be read back from it; white gives 0xFFFF and black 0.
C14_PackedWord ==
    [][\A p \in Procs :
        (/\ pc[p] = "loop"
         /\ paint[p].image.size = <<1, 1>>
         /\ pc'[p] = "idle")
        => LET px == paint[p].image.pix[1]
               R5 == px[1] \div 8
               G6 == px[2] \div 4
               B5 == px[3] \div 8
               word == WordOf(enq'[p][Len(enq'[p])].args)
           IN /\ Len(enq'[p]) = Len(enq[p]) + 1
              /\ Len(enq'[p][Len(enq'[p])].args) = 2
              /\ word = B5 * 256 + (G6 \div 8) + (G6 % 8) * 8192 + R5 * 8
              /\ word < 65536
              /\ word % 8 = G6 \div 8
              /\ (word \div 8) % 32 = R5
              /\ (word \div 256) % 32 = B5
              /\ word \div 8192 = G6 % 8
              /\ px = <<255, 255, 255>> => word = 65535
              /\ px = <<0, 0, 0>> => word = 0]_vars

\* A 1 x 1 image was painted and its pixel packed as 16331: the word of
\* (200, 100, 255), green 25 split into 3 (bits 0-2) and 1 (bits 13-15).
C14_Witness ==
    /\ call[1].op = "DisplayPILImage"
    /\ call[1].args[1] = <<1, 1>>
    /\ result[1] = "ok"
    /\ Len(enq[1]) = 2
    /\ WordOf(enq[1][2].args) = 16331


\* ------------------------------------------------------------ session state
\* No Hello has run yet: its frame, written past the queue, is not on the
\* port.  The session is then Unestablished.
NoHelloYet ==
    \A i \in DOMAIN lcd_serial :
        ~(lcd_serial[i].idx = 0 /\ lcd_serial[i].args[1] = 202)

\* C15: every operation but Hello requires the Ready state: before a Hello
\* has completed, no call of SetBrightness, SetBackplateLedColor,
\* SetOrientation, Clear, ScreenOff, ScreenOn or DisplayPILImage puts a job or
\* writes to the port.
C15_ReadyRequired ==
    NoHelloYet =>
        /\ update_queue = <<>>
        /\ lcd_serial = <<>>
        /\ \A p \in Procs : enq[p] = <<>>


\* ------------------------------------------------------- pixel-line blocks
\* C16: the pixel lines of one DisplayPILImage call are put while the mutex
\* is held throughout: a producer in the pixel loop holds the mutex, and
\* among the queued writes attempted and the jobs pending, every job between
\* two pixel lines of one call is a pixel line of that call.
C16_PixelLinesContiguous ==
    /\ \A p \in Procs : pc[p] = "loop" <=> update_queue_mutex = p
    /\ \A i, k \in DOMAIN Stream :
          (/\ i < k
           /\ Stream[i].f = "WriteLine"
           /\ Stream[k].f = "WriteLine"
           /\ SameCall(Stream[i], Stream[k]))
          => \A j \in i..k :
                /\ SameCall(Stream[j], Stream[i])
                /\ Stream[j].f = "WriteLine"

\* Producer 2 put a job after producer 1's DISPLAY_BITMAP frame and before
\* its first pixel line; the two pixel lines of producer 1 follow together.
C16_Witness ==
    \E i \in DOMAIN Stream :
        /\ i + 3 \in DOMAIN Stream
        /\ Stream[i].by = 1 /\ Stream[i].f = "WriteData" /\ Stream[i].args[1] = DISPLAY_BITMAP
        /\ Stream[i + 1].by = 2
        /\ Stream[i + 2].by = 1 /\ Stream[i + 2].f = "WriteLine"
        /\ Stream[i + 3].by = 1 /\ Stream[i + 3].f = "WriteLine"
        /\ SameCall(Stream[i], Stream[i + 3])


\* The packed bytes of the first n pixels, in raster order, of the w columns
\* painted of image.
RECURSIVE RasterBytes(_, _, _)
RasterBytes(image, w, n) ==
    IF n = 0 THEN <<>>
    ELSE RasterBytes(image, w, n - 1)
            \o Pack(Encode(PixelAt(image, (n - 1) % w, (n - 1) \div w)))

\* The bytes of the pixel lines among jobs, in order.
RECURSIVE ConcatLines(_)
ConcatLines(jobs) ==
    IF jobs = <<>> THEN <<>>
    ELSE (IF Head(jobs).f = "WriteLine" THEN Head(jobs).args ELSE <<>>)
            \o ConcatLines(Tail(jobs))

\* p's pixel loop ends normally in this step.
PaintEnds(p) == pc[p] = "loop" /\ pc'[p] = "idle" /\ result'[p] = "ok"

\* C17: when a paint of width w and height h ends, the pixel lines it has
\* put are, one after the other, the 2-byte words of the w x h pixels in
\* raster order, in ceil(2 w h / (8 width)) jobs; every pixel line put holds
\* 1 to 8 * width bytes, and every one but the last of a call exactly
\* 8 * width, so no empty job is put.
C17_RasterChunks ==
    /\ [](\A p \in Procs : \A i \in DOMAIN enq[p] :
            enq[p][i].f = "WriteLine" =>
                /\ i > 1
                /\ Len(enq[p][i].args) >= 1
                /\ Len(enq[p][i].args) <= 8 * DisplayWidth
                /\ i < Len(enq[p]) => Len(enq[p][i].args) = 8 * DisplayWidth)
    /\ [][\A p \in Procs :
            PaintEnds(p) =>
                LET w == paint[p].image_width
                    h == paint[p].image_height
                IN /\ ConcatLines(enq'[p]) = RasterBytes(paint[p].image, w, w * h)
                   /\ Len(ConcatLines(enq'[p])) = 2 * w * h
                   /\ Len(enq'[p]) = 1 + (2 * w * h + 8 * DisplayWidth - 1)
                                            \div (8 * DisplayWidth)]_vars

\* The whole display was painted: one line of 8 * width bytes and the rest.
C17_Witness ==
    /\ call[1].op = "DisplayPILImage"
    /\ call[1].args = <<<<DisplayWidth, DisplayHeight>>, 0, 0, 0, 0>>
    /\ result[1] = "ok"
    /\ Len(enq[1]) = 3
    /\ Len(enq[1][2].args) = 8 * DisplayWidth
    /\ Len(enq[1][3].args) = 2 * DisplayWidth * DisplayHeight - 8 * DisplayWidth


\* ------------------------------------------------------- the drain, fairly
\* Two producers put single frames and paints while the drain runs.  The
\* drain runs in its own thread for as long as the program does: a job at the
\* head of the queue is not left there forever.  Producers may stop at any
\* point.
InitFair == InitWith(MaxCalls)

NextFair ==
    \/ \E p \in Procs : SetBrightness(p, 0)
    \/ \E p \in Procs : DisplayPILImage(p, FullImage, 0, 0, 0, 0)
    \/ \E p \in Procs : SendCommandPut(p)
    \/ \E p \in Procs : AcquireMutex(p)
    \/ \E p \in Procs : PaintStep(p)
    \/ \E ok \in BOOLEAN : Drain(ok)

Fairness == WF_vars(\E ok \in BOOLEAN : Drain(ok))

SpecFair == InitFair /\ [][NextFair]_vars /\ Fairness

\* The jobs the producers can put: producer, call, position in the call.
JobIds ==
    Procs \X (1..MaxCalls)
          \X (1..(1 + (2 * DisplayWidth * DisplayHeight + 8 * DisplayWidth - 1)
                        \div (8 * DisplayWidth)))

Is(job, id) == job.by = id[1] /\ job.call = id[2] /\ job.idx = id[3]

InQueue(id) == \E i \in DOMAIN update_queue : Is(update_queue[i], id)

\* The write attempts made for job id, by their place on the port's log.
Attempts(id) == { i \in DOMAIN lcd_serial : Is(lcd_serial[i], id) }

\* The write attempted in this step, of a queued job, timed out.
TimesOut ==
    /\ Len(lcd_serial') = Len(lcd_serial) + 1
    /\ lcd_serial'[Len(lcd_serial')].idx > 0
    /\ ~lcd_serial'[Len(lcd_serial')].ok

\* A queued job's write has timed out.
SomeTimedOut == \E i \in DOMAIN lcd_serial : lcd_serial[i].idx > 0 /\ ~lcd_serial[i].ok

\* C18: when the write of a queued job times out, exactly that job, the head
\* of the queue, is discarded and the jobs behind it stay queued in their
\* order; the job is not attempted again and not put again; and every job
\* still queued after a timeout has its write attempted later.
C18_TimeoutDropsOneJob ==
    /\ [][TimesOut =>
            /\ update_queue # <<>>
            /\ Is(lcd_serial'[Len(lcd_serial')],
                  <<Head(update_queue).by, Head(update_queue).call, Head(update_queue).idx>>)
            /\ lcd_serial'[Len(lcd_serial')].args = Head(update_queue).args
            /\ update_queue' = Tail(update_queue)
            /\ SubSeq(lcd_serial', 1, Len(lcd_serial)) = lcd_serial]_vars
    /\ [](\A i \in DOMAIN lcd_serial :
            (lcd_serial[i].idx > 0 /\ ~lcd_serial[i].ok) =>
                /\ \A j \in DOMAIN lcd_serial :
                      (j # i /\ lcd_serial[j].idx > 0) =>
                          ~(SameCall(lcd_serial[j], lcd_serial[i])
                            /\ lcd_serial[j].idx = lcd_serial[i].idx)
                /\ \A k \in DOMAIN update_queue :
                      ~(SameCall(update_queue[k], lcd_serial[i])
                        /\ update_queue[k].idx = lcd_serial[i].idx))
    /\ \A id \in JobIds : (SomeTimedOut /\ InQueue(id)) ~> (Attempts(id) # {})

\* The write of a DISPLAY_BITMAP frame has just timed out; the two pixel
\* lines behind it are still queued, in their order.
C18_Witness ==
    /\ Len(lcd_serial) = 1
    /\ ~lcd_serial[1].ok
    /\ lcd_serial[1].idx = 1
    /\ lcd_serial[1].args[1] = DISPLAY_BITMAP
    /\ Len(update_queue) = 2
    /\ \A k \in 1..2 :
          /\ SameCall(update_queue[k], lcd_serial[1])
          /\ update_queue[k].f = "WriteLine"
          /\ update_queue[k].idx = k + 1

\* C19: with the drain weakly fair, every job put is in time taken off the
\* queue and has its write attempted; at no time has a job more than one
\* attempt, nor is it queued along with an attempt or queued twice; and a
\* job leaves the queue only by having its write attempted.
C19_EveryJobAttemptedOnce ==
    /\ \A id \in JobIds : InQueue(id) ~> (~InQueue(id) /\ Attempts(id) # {})
    /\ [](\A id \in JobIds :
            Cardinality(Attempts(id))
              + Cardinality({ i \in DOMAIN update_queue : Is(update_queue[i], id) }) <= 1)
    /\ [][\A id \in JobIds :
            (InQueue(id) /\ ~InQueue(id)') =>
                Cardinality(Attempts(id)') = Cardinality(Attempts(id)) + 1]_vars

\* The three jobs of a paint were all attempted, one of them timing out, and
\* the queue is empty.
C19_Witness ==
    /\ update_queue = <<>>
    /\ \E p \in Procs :
          /\ Paints(p)
          /\ pc[p] = "idle"
          /\ Len(enq[p]) = 3
          /\ \A i \in 1..3 : Cardinality(Attempts(<<p, ncalls[p], i>>)) = 1
          /\ \E i \in 1..3 : \E k \in Attempts(<<p, ncalls[p], i>>) : ~lcd_serial[k].ok


\* ----------------------------------------------------- announced box, sent
\* The pixels in the box a DISPLAY_BITMAP frame announces.
BoxPixels(f) ==
    LET x0 == f[2] * 256 + f[3]
        y0 == f[4] * 256 + f[5]
        x1 == f[6] * 256 + f[7]
        y1 == f[8] * 256 + f[9]
    IN (x1 - x0 + 1) * (y1 - y0 + 1)

\* C20: a DisplayPILImage call that passed the geometry checks and has ended
\* has put, with its DISPLAY_BITMAP frame for the box (x0, y0)-(x1, y1),
\* pixel lines of 2 (x1 - x0 + 1)(y1 - y0 + 1) bytes in all, whatever the
\* width and height asked are to the image's own size.
C20_BoxFullyPainted ==
    \A p \in Procs :
        (/\ Paints(p)
         /\ pc[p] = "idle"
         /\ enq[p] # <<>>)
        => /\ enq[p][1].f = "WriteData"
           /\ enq[p][1].args[1] = DISPLAY_BITMAP
           /\ Len(ConcatLines(enq[p])) = 2 * BoxPixels(enq[p][1].args)


====
